---------------------------- MODULE Spec2Model ----------------------------
(***************************************************************************)
(* A model of src/llm_plus_executor_demo.py: the "LLM + executor" pipeline *)
(* (main), its intent parser (call_ollama_json) and its deterministic      *)
(* engine (compute_compare_y_vs_lastweekavg).                              *)
(*                                                                         *)
(* Time.  Instants are whole hours of UTC counted from 2026-03-02 00:00    *)
(* UTC, a Monday (day 0).  pandas' tz-aware Timestamp stores the UTC       *)
(* instant; Timestamp - Timedelta(days=k) subtracts k*24 absolute hours,   *)
(* normalize() floors to midnight of the wall clock of the zone, and       *)
(* date() / weekday() read the wall clock.  Europe/London is UTC+0 in      *)
(* winter and UTC+1 between the last Sundays of March and October, the     *)
(* change happening at 01:00 UTC.                                          *)
(*                                                                         *)
(* Text.  The model's reply is a sequence of tokens.  The characters the   *)
(* parser itself looks at (backtick, space, newline, braces) are tokens of *)
(* their own; every other token (a JSON string literal, a number, a bare   *)
(* word) contains none of them.                                            *)
(***************************************************************************)
EXTENDS Integers, Sequences, FiniteSets, TLC

VARIABLES
    pc,         \* position of main(): load, call, parse, dispatch, yesterday, lastweek, present, done
    series,     \* df: the loaded records, each [ts |-> instant or wall hour, amount |-> number]
    aware,      \* whether df['date'] is tz-aware (UTC) or tz-naive
    clock,      \* the wall clock of the machine, as a UTC instant
    ticks,      \* how often the clock advanced during the run
    modelText,  \* what the external model writes to stdout when it succeeds
    raw,        \* proc.stdout as received
    calls,      \* number of `ollama run` invocations
    callStatus, \* how the invocation ended: "" before it, then ok, nonzero, oserror or interrupt
    parsed,     \* the value call_ollama_json returned
    errText,    \* the text carried by the parse error
    today,      \* compute_compare_y_vs_lastweekavg: today (instant of local midnight)
    yday,       \* ... yday (a calendar date: a day number)
    a,          \* ... a
    b,          \* ... b
    lwStart,    \* ... last_week_start (instant)
    lwEnd,      \* ... last_week_end (instant)
    result,     \* what main() computed for presentation
    out,        \* what the run printed, in order
    exitCode,   \* the exit status of the process, -1 while it runs
    path        \* the steps of main() taken so far, in order

vars == <<pc, series, aware, clock, ticks, modelText, raw, calls, callStatus, parsed, errText,
          today, yday, a, b, lwStart, lwEnd, result, out, exitCode, path>>

-----------------------------------------------------------------------------
(* Bounds of the model *)

MaxTicks == 2
MaxRecords == 2
LastDay == 245

\* hours of a day, and of one advance of the clock
Day == 24
TickHours == Day \div 2

\* the first day of the year modelled: 2026-03-16
FirstDay == 2 * 7

-----------------------------------------------------------------------------
(* Europe/London wall clock *)

\* 2026-03-29 01:00 UTC (day 27, a Sunday) and 2026-10-25 01:00 UTC (day 237, a Sunday)
DstStart == 27 * Day + 1
DstEnd == 237 * Day + 1

UtcOffset(t) == IF DstStart <= t /\ t < DstEnd THEN 1 ELSE 0

\* the wall-clock reading of instant t, in hours
Wall(t) == t + UtcOffset(t)

\* Timestamp.date() of a Europe/London timestamp
LocalDate(t) == Wall(t) \div Day

\* pd.Timestamp(date, tz=tz): the instant of local midnight of a calendar date
Localize(d) == CHOOSE t \in {d * Day - 1, d * Day} : Wall(t) = d * Day

\* Timestamp.normalize(): local midnight of the timestamp's local date
Normalize(t) == Localize(LocalDate(t))

\* Timestamp - pd.Timedelta(days=k): absolute time
MinusDays(t, k) == t - k * Day

\* Timestamp.weekday() of a calendar date: Monday = 0 .. Sunday = 6
Weekday(d) == d % 7


Min(S) == CHOOSE x \in S : \A y \in S : x <= y
Max(S) == CHOOSE x \in S : \A y \in S : x >= y

-----------------------------------------------------------------------------
(* Optional numbers: Python's None, or the rational n/d with d > 0 *)

None == [none |-> TRUE, n |-> 0, d |-> 1]
Num(n, d) == [none |-> FALSE, n |-> n, d |-> d]

-----------------------------------------------------------------------------
(* compute_compare_y_vs_lastweekavg *)

\* df['date'].dt.date: the calendar date the column itself shows (naive wall
\* hours, or the UTC date of a UTC-aware column)
DtDate(r) == r.ts \div Day

RECURSIVE SumAmount(_)
\* Series.sum() of the amount column
SumAmount(df) == IF df = <<>> THEN 0 ELSE Head(df).amount + SumAmount(Tail(df))

\* yday = (today - pd.Timedelta(days=1)).date()
YesterdayOf(t) == LocalDate(MinusDays(t, 1))

\* a_df = df[df['date'].dt.date == yday]
YesterdayRows(df, yd) == SelectSeq(df, LAMBDA r : DtDate(r) = yd)

\* a = a_df['amount'].sum() if not a_df.empty else None
YesterdaySum(df, yd) ==
    LET a_df == YesterdayRows(df, yd)
    IN  IF a_df = <<>> THEN None ELSE Num(SumAmount(a_df), 1)

\* last_week_end = (y_ts - pd.Timedelta(days=(y_ts.weekday()+1)%7)).normalize()
LastWeekEnd(yd) ==
    LET y_ts == Localize(yd)
    IN  Normalize(MinusDays(y_ts, (Weekday(LocalDate(y_ts)) + 1) % 7))

\* last_week_start = last_week_end - pd.Timedelta(days=6)
LastWeekStart(e) == MinusDays(e, 6)

\* the filter with the end of the window left out
LastWeekRowsEndExcluded(df, s, e) == SelectSeq(df, LAMBDA r : r.ts >= s /\ r.ts < e)

\* lw = df[(df['date']>=last_week_start) & (df['date']<=last_week_end)]
LastWeekRows(df, s, e) == SelectSeq(df, LAMBDA r : r.ts >= s /\ r.ts <= e)

\* the groups of lw.groupby(lw['date'].dt.date)
GroupDates(df) == {DtDate(df[i]) : i \in DOMAIN df}

\* ...['amount'].sum() of one group
GroupSum(df, dt) == SumAmount(SelectSeq(df, LAMBDA r : DtDate(r) = dt))

RECURSIVE SumOfGroups(_, _)
\* the sum of the per-date sums
SumOfGroups(df, dates) ==
    IF dates = {} THEN 0
    ELSE GroupSum(df, Min(dates)) + SumOfGroups(df, dates \ {Min(dates)})

\* b = lw.groupby(lw['date'].dt.date)['amount'].sum().mean() if not lw.empty else None
MeanOfDailySums(lw) ==
    IF lw = <<>> THEN None
    ELSE Num(SumOfGroups(lw, GroupDates(lw)), Cardinality(GroupDates(lw)))

-----------------------------------------------------------------------------
(* main(): the comparison, lines 124-133 *)

\* if a is None or b is None or pd.isna(b)
Insufficient(x, y) == x.none \/ y.none

\* the difference taken the other way round: b - a
DiffReversed(x, y) == Num(y.n - x.n * y.d, y.d)

\* diff = a - b, with a = x.n (an integer) and b = y.n / y.d
Diff(x, y) == Num(x.n * y.d - y.n, y.d)

\* pct = (diff / b)*100 if b != 0 else None
Pct(x, y) ==
    IF y.n > 0 THEN Num(Diff(x, y).n * 100, y.n)
    ELSE IF y.n < 0 THEN Num(0 - Diff(x, y).n * 100, 0 - y.n)
    ELSE None

\* sign = increase if diff>0 else decrease if diff<0 else no change
Sign(df) == IF df.n > 0 THEN "increase" ELSE IF df.n < 0 THEN "decrease" ELSE "none"

\* f'{pct:.1f}': the percentage in tenths, rounded to the nearest
Tenths(q) == (2 * 10 * q.n + q.d) \div (2 * q.d)

Compare(x, y) ==
    [a |-> x, b |-> y, diff |-> Diff(x, y), pct |-> Pct(x, y),
     sign |-> Sign(Diff(x, y)),
     pctText |-> IF Pct(x, y).none THEN None ELSE Num(Tenths(Pct(x, y)), 10)]

NoResult == [a |-> None, b |-> None, diff |-> None, pct |-> None,
             sign |-> "", pctText |-> None]

-----------------------------------------------------------------------------
(* JSON values, as json.loads builds them *)

\* k: obj (dict), arr (list), str, num, null (None); s: the literal of a
\* string or number; m: the members of a dict (key literal -> value) or the
\* elements of a list
NullV == [k |-> "null", s |-> "", m |-> <<>>]
StrV(lit) == [k |-> "str", s |-> lit, m |-> <<>>]
NumV(lit) == [k |-> "num", s |-> lit, m |-> <<>>]
ArrV(elems) == [k |-> "arr", s |-> "", m |-> elems]
ObjV(members) == [k |-> "obj", s |-> "", m |-> members]
EmptyDict == ObjV(<<>>)

\* the string literals and number literals that occur in the replies
StrLits == {"\"intent\"", "\"metric\"", "\"time\"", "\"a\"", "\"b\"",
            "\"compare\"", "\"aggregate\"", "\"sales\"", "\"sales_amount\"",
            "\"profit\"", "\"yesterday\"", "\"last_7d\"", "\"last_week\"",
            "\"last_week_avg\"", "\"lastweek_avg\"", "\"last_week_average\""}
NumLits == {"42"}

\* the token of one backtick character (a backtick cannot be written in a
\* string of this notation)
Backtick == "<backtick>"

\* the whitespace json.loads skips, and the whitespace str.strip() strips
JsonWs == {" ", "\n"}

RECURSIVE SkipWs(_)
SkipWs(s) == IF s # <<>> /\ Head(s) \in JsonWs THEN SkipWs(Tail(s)) ELSE s

ParseFail == [ok |-> FALSE, v |-> NullV, rest |-> <<>>]
ParseOk(v, rest) == [ok |-> TRUE, v |-> v, rest |-> rest]

RECURSIVE ParseValue(_), ParseMembers(_, _), ParseElements(_, _)

\* json: one value at the head of s
ParseValue(s0) ==
    LET s == SkipWs(s0)
    IN  IF s = <<>> THEN ParseFail
        ELSE LET h == Head(s)
                 t == SkipWs(Tail(s))
             IN  CASE h = "{" ->
                        IF t # <<>> /\ Head(t) = "}"
                        THEN ParseOk(EmptyDict, Tail(t))
                        ELSE ParseMembers(t, <<>>)
                   [] h = "[" ->
                        IF t # <<>> /\ Head(t) = "]"
                        THEN ParseOk(ArrV(<<>>), Tail(t))
                        ELSE ParseElements(t, <<>>)
                   [] h \in StrLits -> ParseOk(StrV(h), Tail(s))
                   [] h \in NumLits -> ParseOk(NumV(h), Tail(s))
                   [] h = "null" -> ParseOk(NullV, Tail(s))
                   [] OTHER -> ParseFail

\* json: "key": value pairs up to the closing brace; a repeated key keeps
\* its last value
ParseMembers(s0, m) ==
    LET s == SkipWs(s0)
    IN  IF s = <<>> \/ Head(s) \notin StrLits THEN ParseFail
        ELSE LET key == Head(s)
                 c == SkipWs(Tail(s))
             IN  IF c = <<>> \/ Head(c) # ":" THEN ParseFail
                 ELSE LET r == ParseValue(Tail(c))
                          u == SkipWs(r.rest)
                          m2 == (key :> r.v) @@ m
                      IN  IF ~r.ok \/ u = <<>> THEN ParseFail
                          ELSE IF Head(u) = "," THEN ParseMembers(Tail(u), m2)
                          ELSE IF Head(u) = "}" THEN ParseOk(ObjV(m2), Tail(u))
                          ELSE ParseFail

\* json: values up to the closing bracket
ParseElements(s0, es) ==
    LET r == ParseValue(s0)
        u == SkipWs(r.rest)
    IN  IF ~r.ok \/ u = <<>> THEN ParseFail
        ELSE IF Head(u) = "," THEN ParseElements(Tail(u), Append(es, r.v))
        ELSE IF Head(u) = "]" THEN ParseOk(ArrV(Append(es, r.v)), Tail(u))
        ELSE ParseFail

\* json.loads(text): one value and nothing but whitespace around it
JsonLoads(text) ==
    LET r == ParseValue(text)
    IN  IF r.ok /\ SkipWs(r.rest) = <<>>
        THEN [ok |-> TRUE, v |-> r.v]
        ELSE [ok |-> FALSE, v |-> NullV]

-----------------------------------------------------------------------------
(* call_ollama_json, after the model call *)

RECURSIVE LStrip(_, _)
LStrip(s, chars) ==
    IF s # <<>> /\ Head(s) \in chars THEN LStrip(Tail(s), chars) ELSE s

RECURSIVE RStrip(_, _)
RStrip(s, chars) ==
    IF s # <<>> /\ s[Len(s)] \in chars THEN RStrip(SubSeq(s, 1, Len(s) - 1), chars) ELSE s

\* str.strip(chars)
Strip(s, chars) == RStrip(LStrip(s, chars), chars)

Positions(s, c) == {i \in DOMAIN s : s[i] = c}

\* text.startswith('```')
StartsWithFence(s) == Len(s) >= 3 /\ s[1] = Backtick /\ s[2] = Backtick /\ s[3] = Backtick

\* text.split('\n',1)[1]
AfterFirstNewline(s) == SubSeq(s, Min(Positions(s, "\n")) + 1, Len(s))

\* if text.startswith('```'): text = text.strip('` \n');
\*     if '\n' in text: text = text.split('\n',1)[1]
Unfence(text) ==
    IF StartsWithFence(text)
    THEN LET t == Strip(text, {Backtick, " ", "\n"})
         IN  IF Positions(t, "\n") # {} THEN AfterFirstNewline(t) ELSE t
    ELSE text

\* s = text[text.index('{'): text.rindex('}')+1]; json.loads(s)
LoadsBraces(text) ==
    IF Positions(text, "{") = {} \/ Positions(text, "}") = {}
    THEN [ok |-> FALSE, v |-> NullV]
    ELSE JsonLoads(SubSeq(text, Min(Positions(text, "{")), Max(Positions(text, "}"))))

\* the function from proc.stdout on: how it ends (ok), the value returned,
\* which parse produced it, and the text the ValueError carries
CallOllamaJson(stdout) ==
    LET text == Unfence(Strip(stdout, JsonWs))
        strict == JsonLoads(text)
        braces == LoadsBraces(text)
    IN  IF strict.ok THEN [ok |-> TRUE, v |-> strict.v, via |-> "strict", text |-> text]
        ELSE IF braces.ok THEN [ok |-> TRUE, v |-> braces.v, via |-> "braces", text |-> text]
        ELSE [ok |-> FALSE, v |-> NullV, via |-> "error", text |-> text]

-----------------------------------------------------------------------------
(* main(): dispatch, lines 120-122 *)

IsDict(v) == v.k = "obj"

\* dict.get(key, default)
DictGet(dct, key, default) == IF key \in DOMAIN dct.m THEN dct.m[key] ELSE default

\* value == 'literal'
IsStr(v, lit) == v.k = "str" /\ v.s = lit

\* value in [literals]
IsStrIn(v, lits) == v.k = "str" /\ v.s \in lits

Metrics == {"\"sales\"", "\"sales_amount\""}
LastWeekAvgNames == {"\"last_week_avg\"", "\"lastweek_avg\"", "\"last_week_average\""}

\* parsed.get('intent') == 'compare' and parsed.get('metric') in ['sales','sales_amount']
IsCompareSales(p) ==
    /\ IsStr(DictGet(p, "\"intent\"", NullV), "\"compare\"")
    /\ IsStrIn(DictGet(p, "\"metric\"", NullV), Metrics)

\* t = parsed.get('time', {})
TimeOf(p) == DictGet(p, "\"time\"", EmptyDict)

\* t.get('a') == 'yesterday' and t.get('b') in [...]
IsYesterdayVsLastWeekAvg(t) ==
    /\ IsStr(DictGet(t, "\"a\"", NullV), "\"yesterday\"")
    /\ IsStrIn(DictGet(t, "\"b\"", NullV), LastWeekAvgNames)

\* what lines 120-122 do with the parsed value: "crash" is the AttributeError
\* of .get on a value that is no dict
Route(p) ==
    IF ~IsDict(p) THEN "crash"
    ELSE IF ~IsCompareSales(p) THEN "unsupported"
    ELSE IF ~IsDict(TimeOf(p)) THEN "crash"
    ELSE IF IsYesterdayVsLastWeekAvg(TimeOf(p)) THEN "compare"
    ELSE "unsupported"

-----------------------------------------------------------------------------
(* The replies of the external model *)

RECURSIVE Join(_, _)
\* the parts, with sep between them
Join(parts, sep) ==
    IF parts = <<>> THEN <<>>
    ELSE IF Len(parts) = 1 THEN parts[1]
    ELSE parts[1] \o sep \o Join(Tail(parts), sep)

\* a JSON object written on one line, or with one member per line
ObjectText(members, multiline) ==
    IF multiline
    THEN <<"{", "\n">> \o Join(members, <<",", "\n">>) \o <<"\n", "}">>
    ELSE <<"{">> \o Join(members, <<",">>) \o <<"}">>

\* "key": value, or nothing when the value is left out
Member(key, valueText) ==
    IF valueText = <<>> THEN <<>> ELSE << <<key, ":">> \o valueText >>

\* the intent of JSON_SCHEMA_DESC; an empty text leaves the member out
IntentText(intent, metric, timeText, multiline) ==
    ObjectText(Member("\"intent\"", intent) \o Member("\"metric\"", metric)
                   \o Member("\"time\"", timeText), multiline)

TimeObjectText(ta, tb) ==
    ObjectText(Member("\"a\"", ta) \o Member("\"b\"", tb), FALSE)

Lit(x) == <<x>>

\* the example of PROMPT_TMPL
SupportedText(multiline) ==
    IntentText(Lit("\"compare\""), Lit("\"sales_amount\""),
               TimeObjectText(Lit("\"yesterday\""), Lit("\"last_week_avg\"")), multiline)

AggregateText ==
    IntentText(Lit("\"aggregate\""), Lit("\"sales\""),
               TimeObjectText(Lit("\"last_7d\""), <<>>), FALSE)

TimeTexts ==
    {<<>>, Lit("null"), Lit("\"yesterday\""), <<"[", "]">>}
    \cup {TimeObjectText(ta, tb) :
            ta \in {<<>>, Lit("\"yesterday\""), Lit("\"last_7d\"")},
            tb \in {<<>>, Lit("\"last_week\"")} \cup {Lit(x) : x \in LastWeekAvgNames}}

\* replies that are one JSON object: every combination of intent, metric and time
DispatchTexts ==
    {IntentText(i, m, t, FALSE) :
        i \in {<<>>, Lit("\"compare\""), Lit("\"aggregate\"")},
        m \in {<<>>, Lit("\"sales\""), Lit("\"sales_amount\""), Lit("\"profit\"")},
        t \in TimeTexts}

\* what a reply can hold between its wrappers
Bodies ==
    {SupportedText(FALSE), SupportedText(TRUE), AggregateText,
     <<"{", "}">>, <<"[", "42", "]">>, <<"[", "]">>, Lit("42"), Lit("null"),
     Lit("\"compare\""), <<>>, <<"{", "\"intent\"">>, <<"}", "{">>,
     SupportedText(FALSE) \o <<"\n">> \o AggregateText}

Fence == <<Backtick, Backtick, Backtick>>

\* a reply: the body bare, in prose, or in a fenced code block with or
\* without a language tag
Wrappings(body) ==
    {body,
     <<" ", "\n">> \o body \o <<"\n">>,
     <<"here", " ", "is", " ", "your", " ", "answer:", " ">> \o body \o <<" ", "thanks">>,
     Fence \o <<"\n">> \o body \o <<"\n">> \o Fence,
     Fence \o <<"json", "\n">> \o body \o <<"\n">> \o Fence,
     Fence \o <<"json", " ">> \o body \o Fence,
     Fence \o body \o Fence,
     Fence \o <<"json", "\n">> \o body \o <<"\n">> \o Fence \o <<"\n", "thanks">>}

ParseTexts == UNION {Wrappings(body) : body \in Bodies}

-----------------------------------------------------------------------------
(* The loaded series *)

Record(ts, amount) == [ts |-> ts, amount |-> amount]

Amounts == {0, 90, 100}

\* the timestamps of the records, relative to the Monday m of the current
\* week: before last week, last week's Monday 00:00, last week's Sunday 00:00
\* and 12:00, this week's Monday 00:00
Timestamps(m) ==
    {(m - 8) * Day, (m - 7) * Day, (m - 1) * Day, (m - 1) * Day + 12, m * Day}

RecordDomain(m) == {Record(ts, amt) : ts \in Timestamps(m), amt \in Amounts}

BoundedSeq(S, n) == UNION {[1..k -> S] : k \in 0..n}

\* one record at 00:00 on each of the seven days before Monday m
EndToEndSeries(m) ==
    [i \in 1..7 |-> Record((m - 8 + i) * Day, IF i < 7 THEN 100 ELSE 200)]

\* three records on last week's Monday and one on its Sunday
UnequalSeries(m) ==
    <<Record((m - 7) * Day, 100), Record((m - 7) * Day, 100),
      Record((m - 7) * Day, 100), Record((m - 1) * Day, 90)>>

\* Mondays: 2026-03-16 (winter time) and 2026-06-15 (summer time)
WinterMonday == 2 * 7
SummerMonday == 15 * 7

-----------------------------------------------------------------------------
(* The run *)

InitRun ==
    /\ pc = "load"
    /\ ticks = 0
    /\ raw = <<>>
    /\ calls = 0
    /\ callStatus = ""
    /\ parsed = NullV
    /\ errText = <<>>
    /\ today = 0
    /\ yday = 0
    /\ a = None
    /\ b = None
    /\ lwStart = 0
    /\ lwEnd = 0
    /\ result = NoResult
    /\ out = <<>>
    /\ exitCode = -1
    /\ path = <<>>

\* the pipeline over every shape of intent
Init ==
    /\ InitRun
    /\ series \in {<<>>, EndToEndSeries(WinterMonday)}
    /\ aware \in BOOLEAN
    /\ clock = WinterMonday * Day + 12
    /\ modelText \in DispatchTexts

\* the parser over every reply
InitParse ==
    /\ InitRun
    /\ series = EndToEndSeries(WinterMonday)
    /\ aware = TRUE
    /\ clock = WinterMonday * Day + 12
    /\ modelText \in ParseTexts

\* the engine over every series
InitAgg ==
    /\ InitRun
    /\ \E m \in {WinterMonday, SummerMonday} :
          /\ series \in BoundedSeq(RecordDomain(m), MaxRecords)
                          \cup {EndToEndSeries(m), UnequalSeries(m)}
          /\ clock \in {m * Day + 12, (m + 1) * Day + 12}
    /\ aware \in BOOLEAN
    /\ modelText = SupportedText(FALSE)

\* the time windows over every day of the year
InitWindow ==
    /\ InitRun
    /\ series = EndToEndSeries(WinterMonday)
    /\ aware = TRUE
    /\ clock \in {dd * Day + h : dd \in FirstDay..LastDay, h \in {0, 12, 23}}
    /\ modelText = SupportedText(FALSE)

\* sys.exit(code), or the end of main(), or an uncaught exception
Exit(code, printed) ==
    /\ pc' = "done"
    /\ exitCode' = code
    /\ out' = out \o printed

\* a handler that goes back to the call instead of leaving
RetryAfterCallError == "call"

\* where `except subprocess.CalledProcessError` leaves main(): sys.exit(2)
AfterCallError == "done"

\* df = load_table(args.file); if df.empty: print(...); sys.exit(1)
Load ==
    /\ pc = "load"
    /\ path' = Append(path, "load")
    /\ IF series = <<>>
       THEN Exit(1, <<"empty_data">>)
       ELSE pc' = "call" /\ UNCHANGED <<exitCode, out>>
    /\ UNCHANGED <<series, aware, clock, ticks, modelText, raw, calls, callStatus, parsed, errText,
                   today, yday, a, b, lwStart, lwEnd, result>>

\* how subprocess.run(['ollama','run',model], ..., check=True) can end: it
\* returns; the child's status is not 0 (a child killed by a signal
\* included): CalledProcessError; the child cannot be started: OSError; the
\* run is interrupted while it waits: KeyboardInterrupt
CallOutcomes == {"ok", "nonzero", "oserror", "interrupt"}

\* proc = subprocess.run(...) with the handlers of main(), lines 108-114
CallOllama ==
    /\ pc = "call"
    /\ path' = Append(path, "call")
    /\ calls' = calls + 1
    /\ \E outcome \in CallOutcomes :
          /\ callStatus' = outcome
          /\ CASE outcome = "ok" ->
                    /\ raw' = modelText
                    /\ pc' = "parse"
                    /\ UNCHANGED <<exitCode, out>>
               [] outcome = "nonzero" ->
                    /\ pc' = AfterCallError
                    /\ exitCode' = 2
                    /\ out' = out \o <<"call_error(stderr)">>
                    /\ UNCHANGED raw
               [] outcome = "oserror" ->
                    /\ Exit(3, <<"exception(str(e))">>)
                    /\ UNCHANGED raw
               [] outcome = "interrupt" ->
                    /\ Exit(130, <<"traceback(KeyboardInterrupt)">>)
                    /\ UNCHANGED raw
    /\ UNCHANGED <<series, aware, clock, ticks, modelText, parsed, errText,
                   today, yday, a, b, lwStart, lwEnd, result>>

\* the rest of call_ollama_json, and `except Exception as e: print(str(e)); sys.exit(3)`
ParseReply ==
    /\ pc = "parse"
    /\ path' = Append(path, "parse")
    /\ LET r == CallOllamaJson(raw)
       IN  IF r.ok
           THEN /\ parsed' = r.v
                /\ pc' = "dispatch"
                /\ UNCHANGED <<errText, exitCode, out>>
           ELSE /\ errText' = r.text
                /\ Exit(3, <<"parse_error(text)">>)
                /\ UNCHANGED parsed
    /\ UNCHANGED <<series, aware, clock, ticks, modelText, raw, calls, callStatus,
                   today, yday, a, b, lwStart, lwEnd, result>>

\* lines 116-122 and 137
Dispatch ==
    /\ pc = "dispatch"
    /\ path' = Append(path, "dispatch")
    /\ CASE Route(parsed) = "compare" ->
              /\ pc' = "yesterday"
              /\ out' = out \o <<"llm_json">>
              /\ UNCHANGED exitCode
         [] Route(parsed) = "unsupported" ->
              Exit(0, <<"llm_json", "unsupported">>)
         [] Route(parsed) = "crash" ->
              Exit(1, <<"llm_json", "traceback(AttributeError)">>)
    /\ UNCHANGED <<series, aware, clock, ticks, modelText, raw, calls, callStatus, parsed, errText,
                   today, yday, a, b, lwStart, lwEnd, result>>

\* the clock read of line 81
Now == clock

\* lines 80-85: today, yday and a
ComputeYesterday ==
    /\ pc = "yesterday"
    /\ path' = Append(path, "yesterday")
    /\ today' = Normalize(Now)
    /\ yday' = YesterdayOf(today')
    /\ a' = YesterdaySum(series, yday')
    /\ pc' = "lastweek"
    /\ UNCHANGED <<series, aware, clock, ticks, modelText, raw, calls, callStatus, parsed, errText,
                   b, lwStart, lwEnd, result, out, exitCode>>

\* the date the window is computed from: y_ts = pd.Timestamp(yday, tz=tz)
WindowBase == yday

\* lines 87-93: the window and b.  Comparing a tz-naive datetime column with a
\* tz-aware Timestamp (line 90) raises TypeError
ComputeLastWeek ==
    /\ pc = "lastweek"
    /\ path' = Append(path, "lastweek")
    /\ lwEnd' = LastWeekEnd(WindowBase)
    /\ lwStart' = LastWeekStart(lwEnd')
    /\ IF aware
       THEN /\ b' = MeanOfDailySums(LastWeekRows(series, lwStart', lwEnd'))
            /\ pc' = "present"
            /\ UNCHANGED <<out, exitCode>>
       ELSE /\ Exit(1, <<"traceback(TypeError)">>)
            /\ UNCHANGED b
    /\ UNCHANGED <<series, aware, clock, ticks, modelText, raw, calls, callStatus, parsed, errText,
                   today, yday, a, result>>

\* lines 124-135
Present ==
    /\ pc = "present"
    /\ path' = Append(path, "present")
    /\ IF Insufficient(a, b)
       THEN /\ Exit(0, <<"insufficient_data">>)
            /\ UNCHANGED result
       ELSE /\ result' = Compare(a, b)
            /\ Exit(0, <<"result", "rationale">>)
    /\ UNCHANGED <<series, aware, clock, ticks, modelText, raw, calls, callStatus, parsed, errText,
                   today, yday, a, b, lwStart, lwEnd>>

\* time passes while the run goes on
Tick ==
    /\ pc # "done"
    /\ ticks < MaxTicks
    /\ ticks' = ticks + 1
    /\ clock' = clock + TickHours
    /\ UNCHANGED <<pc, series, aware, modelText, raw, calls, callStatus, parsed, errText,
                   today, yday, a, b, lwStart, lwEnd, result, out, exitCode, path>>

Next ==
    \/ Load
    \/ CallOllama
    \/ ParseReply
    \/ Dispatch
    \/ ComputeYesterday
    \/ ComputeLastWeek
    \/ Present
    \/ Tick

Spec == Init /\ [][Next]_vars
SpecParse == InitParse /\ [][Next]_vars
SpecAgg == InitAgg /\ [][Next]_vars
SpecWindow == InitWindow /\ [][Next]_vars

-----------------------------------------------------------------------------
(* Properties *)

Took(step) == \E i \in DOMAIN path : path[i] = step
Printed(line) == \E i \in DOMAIN out : out[i] = line

\* the calendar dates main() prints as the window: (s, e)
WindowStartDate == LocalDate(lwStart)
WindowEndDate == LocalDate(lwEnd)
TodayDate == LocalDate(today)

\* C1: for every now, the last-week window is 7 consecutive days (start = end
\* - 6 days), ends on a Sunday, ends strictly before today's date, and does
\* not contain today's date.
C1_WindowIsLastFullWeek ==
    Took("lastweek") =>
        /\ WindowStartDate = WindowEndDate - 6
        /\ Weekday(WindowEndDate) = 6
        /\ WindowEndDate < TodayDate
        /\ ~(WindowStartDate <= TodayDate /\ TodayDate <= WindowEndDate)

\* the mean of the per-date sums of the records whose calendar date lies in
\* [s, e], None when there is none
ClaimedWeekAverage(df, s, e) ==
    LET rows == SelectSeq(df, LAMBDA r : s <= DtDate(r) /\ DtDate(r) <= e)
        dates == {DtDate(rows[i]) : i \in DOMAIN rows}
    IN  IF rows = <<>> THEN None
        ELSE Num(SumAmount(rows), Cardinality(dates))

SameNumber(x, y) ==
    /\ x.none = y.none
    /\ ~x.none => x.n * y.d = y.n * x.d

\* C2: for every series and window, the last-week average is the mean of the
\* per-date sums of the records whose date lies in the window, both ends
\* included, and is None when no record falls in the window.
C2_AverageIsMeanOfDailySums ==
    Took("lastweek") =>
        /\ ~Printed("traceback(TypeError)")
        /\ SameNumber(b, ClaimedWeekAverage(series, WindowStartDate, WindowEndDate))

\* one record on each of seven consecutive days, amounts 100 (six times) and
\* 200, the last day being yesterday and the seven days the window
EndToEndCase ==
    /\ Len(series) = 7
    /\ \A i \in 1..7 : series[i].amount = (IF i < 7 THEN 100 ELSE 200)
    /\ \A i \in 1..6 : DtDate(series[i + 1]) = DtDate(series[i]) + 1
    /\ Took("lastweek")
    /\ yday = DtDate(series[7])
    /\ WindowStartDate = DtDate(series[1])
    /\ WindowEndDate = DtDate(series[7])

C4_InsufficientData ==
    (pc = "done" /\ Took("yesterday") /\ (a.none \/ (Took("present") /\ b.none))) =>
        /\ Printed("insufficient_data")
        /\ ~Printed("result")
        /\ exitCode = 0

\* the combinations the handler is wired to
ClaimedSupported(p) ==
    /\ p.k = "obj"
    /\ "\"intent\"" \in DOMAIN p.m /\ p.m["\"intent\""] = StrV("\"compare\"")
    /\ "\"metric\"" \in DOMAIN p.m
    /\ p.m["\"metric\""] \in {StrV("\"sales\""), StrV("\"sales_amount\"")}
    /\ "\"time\"" \in DOMAIN p.m
    /\ LET t == p.m["\"time\""]
       IN  /\ t.k = "obj"
           /\ "\"a\"" \in DOMAIN t.m /\ t.m["\"a\""] = StrV("\"yesterday\"")
           /\ "\"b\"" \in DOMAIN t.m
           /\ t.m["\"b\""] \in {StrV("\"last_week_avg\""), StrV("\"lastweek_avg\""),
                                StrV("\"last_week_average\"")}

\* C5: dispatch runs the compare handler exactly for the supported
\* combination; for every other parsed intent (a missing or non-object time
\* included) the run prints "not supported yet" and ends with exit code 0.
C5_DispatchTable ==
    Took("dispatch") =>
        IF ClaimedSupported(parsed)
        THEN pc = "yesterday" \/ Took("yesterday")
        ELSE /\ ~Took("yesterday")
             /\ pc = "done"
             /\ Printed("unsupported")
             /\ exitCode = 0

\* C6: the parser either returns a JSON object (from the strict parse or
\* from the first-brace-to-last-brace substring) or fails with an error that
\* carries the text it was given; it never returns a value that is no object.
C6_ObjectOrError ==
    Took("parse") =>
        IF Printed("parse_error(text)")
        THEN errText = Strip(raw, JsonWs)
        ELSE parsed.k = "obj"

\* the replies of C7: an object in a fenced block, with or without a
\* language tag, on one line or on several
FencedObjects ==
    {[text |-> Fence \o tag \o <<"\n">> \o body \o <<"\n">> \o Fence, body |-> body] :
        tag \in {<<>>, <<"json">>},
        body \in {SupportedText(FALSE), SupportedText(TRUE), AggregateText}}

\* C7: a valid JSON object wrapped in a fenced code block is returned, with
\* or without a language tag, written on one line or on several.
C7_FencedObjectReturned ==
    \A f \in FencedObjects :
        (Took("parse") /\ raw = f.text) =>
            /\ ~Printed("parse_error(text)")
            /\ parsed.k = "obj"
            /\ parsed = JsonLoads(f.body).v

C9_OneClockReading ==
    Took("lastweek") =>
        /\ yday = TodayDate - 1
        /\ WindowEndDate = yday - ((Weekday(yday) + 1) % 7)

\* C10: for numbers a and b, diff = a - b; the direction is increase when
\* diff > 0, decrease when diff < 0, none when diff = 0; pct = diff / b * 100
\* when b # 0 and None when b = 0; a = 90 and b = 100 give diff = -10, pct =
\* -10.0 and decrease.
C10_Comparison ==
    (Took("present") /\ ~a.none /\ ~b.none) =>
        LET num == a.n * b.d - b.n     \* a - b = num / b.d
        IN  /\ Printed("result")
            /\ result.diff.d > 0
            /\ result.diff.n * b.d = num * result.diff.d
            /\ result.sign = (IF num > 0 THEN "increase"
                              ELSE IF num < 0 THEN "decrease" ELSE "none")
            /\ b.n = 0 => result.pct.none /\ result.pctText.none
            /\ b.n # 0 =>
                  /\ ~result.pct.none
                  /\ result.pct.d > 0
                  /\ result.pct.n * b.n = 100 * num * result.pct.d
            /\ (a = Num(90, 1) /\ b = Num(100, 1)) =>
                  /\ result.diff = Num(0 - 10, 1)
                  /\ result.pctText = Num(0 - 100, 10)
                  /\ result.sign = "decrease"

C10_Witness ==
    /\ pc = "done"
    /\ Took("present")
    /\ a = Num(90, 1)
    /\ b = Num(100, 1)
    /\ result.sign = "decrease"

=============================================================================
